---- MODULE Spec2Model ----
(***************************************************************************)
(* The concurrent compilation orchestrator of golightly                    *)
(* (src/src/golightly/compiler.go, src/golightly/sourcefile.go,            *)
(* src/golightly/compilepackage.go).                                       *)
(*                                                                         *)
(* Goroutines: every Compile call, the File Scheduler Loop compileSrcs,    *)
(* the Package Import Loop importPackages and one compileFileAndComplete   *)
(* subtask per sourceFile.  Channels are FIFO queues with the capacity the *)
(* source gives them; a send on a full channel is not enabled.             *)
(*                                                                         *)
(* Names the source uses but does not define are read as the functions it  *)
(* does define: NewCompiler starts parseSrcs, read as compileSrcs;         *)
(* compileSrcs starts compileFileAndComplete, read as parseFileAndComplete *)
(* whose parseFile is compileFile.  waitImports and the sender of package  *)
(* completion messages are not in the source; they follow spec.md.         *)
(***************************************************************************)
EXTENDS Integers, Sequences, FiniteSets, TLC

\* ---------------------------------------------------------------- bounds
NumCalls == 2
MaxSrcFiles == 2

Calls == 1 .. NumCalls
Files == {"a.go", "b.go"}
Packages == {"shared"}
MemberFiles == {"shared.go"}

\* ------------------------------------------------------ program constants
addImportChannelDepth == 4
compileSrcChannelDepth == 4
completionChannelDepth == 4

compileStatusParsing == 0
compileStatusSymbolsAvailable == 1
compileStatusComplete == 2

nil == "nil"

VARIABLES
    collab,         \* external collaborators: what open/parse of each file yield
    importsOf,      \* external collaborators: the packages each file imports
    packageFiles,   \* external collaborator: the member files of each package
    call,           \* the Compile calls: position, arguments, locals
    chans,          \* completion channels: channel id -> queued completionMessages
    compileSrc,     \* Compiler.compileSrc
    addImport,      \* Compiler.addImport
    shutdown,       \* Compiler.shutdown: "open" or "closed"
    panicked,       \* a goroutine panicked: the process is gone
    srcFiles,       \* Compiler.srcFiles: file name -> index into units (0: no entry)
    units,          \* every sourceFile ever made, with its subtask's position
    packages,       \* Compiler.packages: package name -> compilePackage or NoPackage
    made,           \* history: compilePackages made per package name
    handled,        \* history: the importMessages importPackages has handled
    reported,       \* per package: the result it has reported, or "none"
    cs,             \* compileSrcs: position
    ip,             \* importPackages: position and locals
    passCompiler,   \* the pass-based Compiler (earlier revision) and its goroutines
    tl              \* a TokenList, with what was added to it and read from it

vars == <<collab, importsOf, packageFiles, call, chans, compileSrc, addImport, shutdown,
          panicked, srcFiles, units, packages, made, handled, reported, cs, ip,
          passCompiler, tl>>

\* ------------------------------------------------------------- channels
\* Channel ids.  A Compile call's completeChannel, a sourceFile's
\* packageComplete, and importPackages' importComplete.
CallChannel(c) == <<"completeChannel", c>>
FileChannel(u) == <<"packageComplete", u>>
importComplete == <<"importComplete">>

\* make(chan completionMessage, completionChannelDepth) for a call's channel
\* and importComplete; make(chan completionMessage) for packageComplete.
Depth(ch) ==
    IF ch[1] = "packageComplete" THEN 0 ELSE completionChannelDepth

\* An unbuffered channel takes a message only while its receiver is at the
\* receive; a buffered one while it has room.
CanSend(ch) ==
    IF Depth(ch) = 0
    THEN /\ chans[ch] = <<>>
         /\ units[ch[2]].pc = "waitImports"
    ELSE Len(chans[ch]) < Depth(ch)

\* ------------------------------------------------------------- messages
completionMessage(packageName, fileName, err) ==
    [packageName |-> packageName, fileName |-> fileName, err |-> err]

compileSrcMessage(fileName, completeChannel) ==
    [fileName |-> fileName, completeChannel |-> completeChannel]

importMessage(packageName, fromFileName, completeChannel) ==
    [packageName |-> packageName, fromFileName |-> fromFileName,
     completeChannel |-> completeChannel]

\* errors.New("I can't find <file>: ...") and the parser's error.
OpenError(f) == "I can't find " \o f
ParseError(f) == "parse error in " \o f
PackageError(p) == "error in package " \o p

\* ------------------------------------------------------------ constructors
NewSourceFile(fileName, completeChannel) ==
    [fileName |-> fileName,
     packageName |-> "",
     waitingPackageComplete |-> {},
     completeChannel |-> completeChannel,
     status |-> compileStatusParsing,
     pc |-> "open",
     toImport |-> {},
     err |-> nil]

NoPackage == [packageName |-> ""]

NewCompilePackage(packageName, completeChannel) ==
    [packageName |-> packageName,
     waitingFileComplete |-> {},
     status |-> compileStatusParsing,
     clientCompleteChannels |-> <<completeChannel>>,
     completeMessage |-> completionMessage("", "", nil)]

\* ------------------------------------------------------------------ Init
FileLists == UNION {[1 .. n -> Files] : n \in 0 .. MaxSrcFiles}

\* A Compile call that has not been made yet.  srcFiles holds the names of the
\* argument the range loop has still to send; sent and recv are history: the
\* names sent on compileSrc and the messages received; after is history: the
\* calls that had returned when this one was made.
NewCall ==
    [pc |-> "idle", srcFiles |-> <<>>, waitingOn |-> {}, err |-> nil,
     sent |-> {}, recv |-> <<>>, after |-> {}]

\* NewCompiler: empty tables, open shutdown channel, empty request channels,
\* both loops started.
Init ==
    /\ collab \in [Files -> {"ok", "openError", "parseError"}]
    /\ importsOf \in [Files -> SUBSET Packages]
    /\ packageFiles \in [Packages -> SUBSET MemberFiles]
    /\ call = [c \in Calls |-> NewCall]
    /\ chans = [ch \in {CallChannel(c) : c \in Calls} \cup {importComplete} |-> <<>>]
    /\ compileSrc = <<>>
    /\ addImport = <<>>
    /\ shutdown = "open"
    /\ panicked = FALSE
    /\ srcFiles = [f \in Files |-> 0]
    /\ units = <<>>
    /\ packages = [p \in Packages |-> NoPackage]
    /\ made = [p \in Packages |-> 0]
    /\ handled = {}
    /\ reported = [p \in Packages |-> "none"]
    /\ cs = [pc |-> "select"]
    /\ passCompiler = <<>>
    /\ tl = <<>>
    /\ ip = [pc |-> "select", todo |-> <<>>, msg |-> completionMessage("", "", nil),
             running |-> FALSE, packageName |-> ""]

\* ------------------------------------------------------------ Compile
\* Variant of CompileFound (a seeded fault): the lookup never finds the name.
CompileFoundNever(waitingOn, fileName) == FALSE

\* "_, found := waitingOn[fileName]"
CompileFound(waitingOn, fileName) == fileName \in waitingOn

\* The range loop passes over a name that is already in waitingOn: the names
\* of the list it will still send, in order.
RECURSIVE ToSend(_, _)
ToSend(list, waitingOn) ==
    IF list = <<>> THEN <<>>
    ELSE IF CompileFound(waitingOn, Head(list)) THEN ToSend(Tail(list), waitingOn)
    ELSE <<Head(list)>> \o ToSend(Tail(list), waitingOn \cup {Head(list)})

\* Compile is called with a list of file names: the completion channel of the
\* call is fresh and waitingOn empty.  Calls are made in the order of their
\* ids (they are interchangeable).
CompileBegin(c) ==
    /\ ~panicked
    /\ call[c].pc = "idle"
    /\ \A d \in Calls : d < c => call[d].pc # "idle"
    /\ \E fl \in FileLists :
         call' = [call EXCEPT ![c].srcFiles = ToSend(fl, {}),
                              ![c].pc = IF fl = <<>> THEN "receive" ELSE "queue",
                              ![c].after = {d \in Calls : call[d].pc = "returned"}]
    /\ UNCHANGED <<passCompiler, tl, collab, importsOf, packageFiles, chans, compileSrc, addImport, shutdown,
                   panicked, srcFiles, units, packages, made, handled, reported,
                   cs, ip>>

\* Variant of CompileQueue (a seeded fault): before it sends the request,
\* Compile deletes the file's entry from c.srcFiles itself.
CompileQueueDeletesEntry(c) ==
    /\ ~panicked
    /\ call[c].pc = "queue"
    /\ Len(compileSrc) < compileSrcChannelDepth
    /\ LET fileName == Head(call[c].srcFiles)
           waitingOn == call[c].waitingOn \cup {fileName}
           rest == ToSend(Tail(call[c].srcFiles), waitingOn)
       IN  /\ compileSrc' =
                Append(compileSrc, compileSrcMessage(fileName, CallChannel(c)))
           /\ srcFiles' = [srcFiles EXCEPT ![fileName] = 0]
           /\ call' = [call EXCEPT ![c].waitingOn = waitingOn,
                                   ![c].sent = @ \cup {fileName},
                                   ![c].srcFiles = rest,
                                   ![c].pc = IF rest = <<>> THEN "receive" ELSE "queue"]
    /\ UNCHANGED <<passCompiler, tl, collab, importsOf, packageFiles, chans, addImport, shutdown,
                   panicked, units, packages, made, handled, reported, cs, ip>>

\* The range loop up to and including its next send: the name is recorded in
\* waitingOn and sent on compileSrc (the send waits for room).
CompileQueue(c) ==
    /\ ~panicked
    /\ call[c].pc = "queue"
    /\ Len(compileSrc) < compileSrcChannelDepth
    /\ LET fileName == Head(call[c].srcFiles)
           waitingOn == call[c].waitingOn \cup {fileName}
           rest == ToSend(Tail(call[c].srcFiles), waitingOn)
       IN  /\ compileSrc' =
                Append(compileSrc, compileSrcMessage(fileName, CallChannel(c)))
           /\ call' = [call EXCEPT ![c].waitingOn = waitingOn,
                                   ![c].sent = @ \cup {fileName},
                                   ![c].srcFiles = rest,
                                   ![c].pc = IF rest = <<>> THEN "receive" ELSE "queue"]
    /\ UNCHANGED <<passCompiler, tl, collab, importsOf, packageFiles, chans, addImport, shutdown, panicked,
                   srcFiles, units, packages, made, handled, reported, cs, ip>>

\* Variant of CompileErr (a seeded fault): "err := msg.err" declares a new err in the if block,
\* so the error Compile returns is never set.
CompileErrShadowed(err, msg) == err

\* The error Compile holds after a message: "err = msg.err" when the message
\* carries an error.
CompileErr(err, msg) == IF msg.err # nil THEN msg.err ELSE err

\* Variant of CompileFinished (a seeded fault): the receive loop also ends at an error.
CompileFinishedAtError(waitingOn, msg) == waitingOn = {} \/ msg.err # nil

\* The receive loop ends when waitingOn, after the delete, is empty.
CompileFinished(waitingOn, msg) == waitingOn = {}

\* One iteration of the receive loop: take a message; on an error keep it and
\* close(c.shutdown), which panics when the channel is already closed; delete
\* the file from waitingOn; return when finished.
CompileReceive(c) ==
    /\ ~panicked
    /\ call[c].pc = "receive"
    /\ chans[CallChannel(c)] # <<>>
    /\ LET msg == Head(chans[CallChannel(c)])
           isErr == msg.err # nil
           waitingOn == call[c].waitingOn \ {msg.fileName}
           panics == isErr /\ shutdown = "closed"
       IN  /\ chans' = [chans EXCEPT ![CallChannel(c)] = Tail(@)]
           /\ shutdown' = IF isErr THEN "closed" ELSE shutdown
           /\ panicked' = panics
           /\ call' = [call EXCEPT
                 ![c].err = CompileErr(@, msg),
                 ![c].recv = Append(@, msg),
                 ![c].waitingOn = IF panics THEN @ ELSE waitingOn,
                 ![c].pc = IF ~panics /\ CompileFinished(waitingOn, msg)
                           THEN "returned" ELSE @]
    /\ UNCHANGED <<passCompiler, tl, collab, importsOf, packageFiles, compileSrc, addImport, srcFiles, units,
                   packages, made, handled, reported, cs, ip>>

Compile(c) == CompileBegin(c) \/ CompileQueue(c) \/ CompileReceive(c)

\* ------------------------------------------- Compile's range loop, by step
\* The range loop of Compile one iteration at a time, over the argument as it
\* was passed (names may repeat).  A call holds the argument, the index of
\* the next element and waitingOn; the requests stay on compileSrc.
RangeCall == [pc |-> "idle", srcFiles |-> <<>>, i |-> 1, waitingOn |-> {}]

InitRange ==
    /\ collab = [f \in Files |-> "ok"]
    /\ importsOf = [f \in Files |-> {}]
    /\ packageFiles = [p \in Packages |-> {}]
    /\ call = [c \in Calls |-> RangeCall]
    /\ chans = [ch \in {CallChannel(c) : c \in Calls} \cup {importComplete} |-> <<>>]
    /\ compileSrc = <<>>
    /\ addImport = <<>>
    /\ shutdown = "open"
    /\ panicked = FALSE
    /\ srcFiles = [f \in Files |-> 0]
    /\ units = <<>>
    /\ packages = [p \in Packages |-> NoPackage]
    /\ made = [p \in Packages |-> 0]
    /\ handled = {}
    /\ reported = [p \in Packages |-> "none"]
    /\ cs = [pc |-> "select"]
    /\ passCompiler = <<>>
    /\ tl = <<>>
    /\ ip = [pc |-> "select", todo |-> <<>>, msg |-> completionMessage("", "", nil),
             running |-> FALSE, packageName |-> ""]

\* Compile is called: a fresh completion channel and an empty waitingOn.
CompileRangeBegin(c) ==
    /\ call[c].pc = "idle"
    /\ \A d \in Calls : d < c => call[d].pc # "idle"
    /\ \E fl \in FileLists :
         call' = [call EXCEPT ![c].srcFiles = fl,
                              ![c].pc = IF fl = <<>> THEN "receive" ELSE "range"]
    /\ UNCHANGED <<passCompiler, tl, collab, importsOf, packageFiles, chans, compileSrc,
                   addImport, shutdown, panicked, srcFiles, units, packages,
                   made, handled, reported, cs, ip>>

\* One iteration: look the name up in waitingOn; when it is not found, record
\* it and send the request (the send waits for room on compileSrc).
CompileRangeStep(c) ==
    /\ call[c].pc = "range"
    /\ LET fileName == call[c].srcFiles[call[c].i]
           found == CompileFound(call[c].waitingOn, fileName)
           last == call[c].i = Len(call[c].srcFiles)
       IN  /\ IF found
              THEN UNCHANGED compileSrc
              ELSE /\ Len(compileSrc) < compileSrcChannelDepth
                   /\ compileSrc' = Append(compileSrc,
                         compileSrcMessage(fileName, CallChannel(c)))
           /\ call' = [call EXCEPT
                 ![c].waitingOn = IF found THEN @ ELSE @ \cup {fileName},
                 ![c].i = @ + 1,
                 ![c].pc = IF last THEN "receive" ELSE @]
    /\ UNCHANGED <<passCompiler, tl, collab, importsOf, packageFiles, chans, addImport,
                   shutdown, panicked, srcFiles, units, packages, made,
                   handled, reported, cs, ip>>

NextRange ==
    \E c \in Calls : CompileRangeBegin(c) \/ CompileRangeStep(c)

SpecRange == InitRange /\ [][NextRange]_vars

\* ------------------------------------------------------------ compileSrcs
\* Variant of compileSrcsRunning (a seeded fault): running starts out true, so the loop goes on
\* until the shutdown case is taken.
compileSrcsRunningUntilShutdown(selected) == selected # "shutdown"

\* The value of the loop's "running" after the select: the variable is
\* declared in the loop body, so it is false unless the shutdown case set it,
\* and a receive from the closed shutdown channel sets it to false.
compileSrcsRunning(selected) ==
    IF selected = "shutdown" THEN shutdown # "closed" ELSE FALSE

\* The cases of the select that can proceed.
compileSrcsReady ==
    (IF compileSrc # <<>> THEN {"compileSrc"} ELSE {})
      \cup (IF shutdown = "closed" THEN {"shutdown"} ELSE {})

\* One iteration of the loop.  case csm := <-c.compileSrc makes a sourceFile,
\* stores it under the file name and starts its subtask.
compileSrcs ==
    /\ ~panicked
    /\ cs.pc = "select"
    /\ \E selected \in compileSrcsReady :
         /\ IF selected = "compileSrc"
            THEN LET csm == Head(compileSrc)
                     sf == NewSourceFile(csm.fileName, csm.completeChannel)
                     u == Len(units) + 1
                 IN  /\ compileSrc' = Tail(compileSrc)
                     /\ units' = Append(units, sf)
                     /\ srcFiles' = [srcFiles EXCEPT ![csm.fileName] = u]
                     /\ chans' = chans @@ (FileChannel(u) :> <<>>)
            ELSE UNCHANGED <<compileSrc, units, srcFiles, chans>>
         /\ cs' = [cs EXCEPT !.pc = IF compileSrcsRunning(selected)
                                    THEN "select" ELSE "exited"]
    /\ UNCHANGED <<passCompiler, tl, collab, importsOf, packageFiles, call, addImport, shutdown, panicked,
                   packages, made, handled, reported, ip>>


\* ------------------------------------------------- compileFileAndComplete
\* compileFile up to the import wait: os.Open, then parser.Parse, then
\* createSymbols (which returns nil).  Each yields its error, or nil.
compileFileOpen(f) == IF collab[f] = "openError" THEN OpenError(f) ELSE nil
compileFileParse(f) == IF collab[f] = "parseError" THEN ParseError(f) ELSE nil
createSymbols(f) == nil

compileFile(f) ==
    IF compileFileOpen(f) # nil THEN compileFileOpen(f)
    ELSE IF compileFileParse(f) # nil THEN compileFileParse(f)
    ELSE createSymbols(f)

\* Variant of parseFileAndCompleteSends (a seeded fault): the message is sent
\* without the error.
parseFileAndCompleteSendsNoErr(sf, err) ==
    IF err # nil
    THEN <<completionMessage(sf.packageName, sf.fileName, nil)>>
    ELSE <<>>

\* What parseFileAndComplete sends when compileFile has returned err: a
\* completion message on the sourceFile's completeChannel when err is not nil,
\* and nothing otherwise.
parseFileAndCompleteSends(sf, err) ==
    IF err # nil
    THEN <<completionMessage(sf.packageName, sf.fileName, err)>>
    ELSE <<>>

\* Where the subtask stands once compileFile has returned err.
parseFileAndCompleteNext(sf, err) ==
    IF parseFileAndCompleteSends(sf, err) # <<>> THEN "complete" ELSE "done"

\* waitImports: the file asks for each package it imports, with its
\* packageComplete channel as the reply destination, then waits until every
\* one has answered; an answer carrying an error ends the wait with that error.
waitImports(u) ==
    LET sf == units[u] IN
    IF sf.pc = "sendImports"
    THEN /\ Len(addImport) < addImportChannelDepth
         /\ \E p \in sf.toImport :
              /\ addImport' = Append(addImport,
                                 importMessage(p, sf.fileName, FileChannel(u)))
              /\ units' = [units EXCEPT
                    ![u].toImport = @ \ {p},
                    ![u].pc = IF sf.toImport = {p} THEN "waitImports" ELSE @]
         /\ UNCHANGED chans
    ELSE /\ chans[FileChannel(u)] # <<>>
         /\ LET msg == Head(chans[FileChannel(u)])
                waiting == sf.waitingPackageComplete \ {msg.packageName}
                err == msg.err
                over == err # nil \/ waiting = {}
            IN  /\ chans' = [chans EXCEPT ![FileChannel(u)] = Tail(@)]
                /\ units' = [units EXCEPT
                      ![u].waitingPackageComplete = waiting,
                      ![u].err = err,
                      ![u].pc = IF over THEN parseFileAndCompleteNext(sf, err)
                                ELSE @]
         /\ UNCHANGED addImport

\* The subtask of sourceFile u, one step at a time: compileFile up to the
\* import wait, the import wait, and the send of the completion message.
compileFileAndComplete(u) ==
    /\ ~panicked
    /\ units[u].pc # "done"
    /\ LET sf == units[u]
           f == sf.fileName
       IN
       CASE sf.pc = "open" ->
              /\ units' = [units EXCEPT
                    ![u].err = compileFile(f),
                    ![u].toImport = IF compileFile(f) = nil THEN importsOf[f] ELSE {},
                    ![u].waitingPackageComplete =
                        IF compileFile(f) = nil THEN importsOf[f] ELSE {},
                    ![u].pc = IF compileFile(f) = nil /\ importsOf[f] # {}
                              THEN "sendImports"
                              ELSE parseFileAndCompleteNext(sf, compileFile(f))]
              /\ UNCHANGED <<addImport, chans>>
         [] sf.pc \in {"sendImports", "waitImports"} ->
              waitImports(u)
         [] sf.pc = "complete" ->
              /\ CanSend(sf.completeChannel)
              /\ chans' = [chans EXCEPT ![sf.completeChannel] =
                              @ \o parseFileAndCompleteSends(sf, sf.err)]
              /\ units' = [units EXCEPT ![u].pc = "done"]
              /\ UNCHANGED addImport
    /\ UNCHANGED <<passCompiler, tl, collab, importsOf, packageFiles, call, compileSrc, shutdown, panicked,
                   srcFiles, packages, made, handled, reported, cs, ip>>

\* --------------------------------------------------------- importPackages
\* Variant of importPackagesRunning (a seeded fault): running starts out true,
\* so the loop goes on until the shutdown case is taken.
importPackagesRunningUntilShutdown(selected) == selected # "shutdown"

\* The value of the loop's "running" after the select, as in compileSrcs.
importPackagesRunning(selected) ==
    IF selected = "shutdown" THEN shutdown # "closed" ELSE FALSE

importPackagesReady ==
    (IF addImport # <<>> THEN {"addImport"} ELSE {})
      \cup (IF chans[importComplete] # <<>> THEN {"importComplete"} ELSE {})
      \cup (IF shutdown = "closed" THEN {"shutdown"} ELSE {})

\* The end of an iteration: "if !running { break }".
importPackagesLoop(running) ==
    [pc |-> IF running THEN "select" ELSE "exited",
     todo |-> <<>>, msg |-> completionMessage("", "", nil), running |-> FALSE,
     packageName |-> ""]

\* case im := <-c.addImport
importPackagesAdd(im, running) ==
    LET cp == packages[im.packageName]
        ok == cp # NoPackage
    IN  /\ addImport' = Tail(addImport)
        /\ handled' = handled \cup {im}
        /\ UNCHANGED chans
        /\ IF ok /\ cp.status = compileStatusParsing
           THEN /\ packages' = [packages EXCEPT
                      ![im.packageName].clientCompleteChannels =
                          Append(@, im.completeChannel)]
                /\ ip' = importPackagesLoop(running)
                /\ UNCHANGED made
           ELSE IF ok
           THEN /\ ip' = [pc |-> "reply", todo |-> <<im.completeChannel>>,
                          msg |-> cp.completeMessage, running |-> running,
                          packageName |-> im.packageName]
                /\ UNCHANGED <<packages, made>>
           ELSE /\ packages' = [packages EXCEPT ![im.packageName] =
                      NewCompilePackage(im.packageName, importComplete)]
                /\ made' = [made EXCEPT ![im.packageName] = @ + 1]
                /\ ip' = importPackagesLoop(running)

\* The package after its clients have been told: the list is cleared and the
\* status becomes compileStatusSymbolsAvailable.
importPackagesTold(cp) ==
    [cp EXCEPT !.clientCompleteChannels = <<>>,
               !.status = compileStatusSymbolsAvailable]

\* case cm := <-importComplete
importPackagesComplete(cm, running) ==
    LET ok == cm.packageName \in Packages /\ packages[cm.packageName] # NoPackage
    IN  /\ chans' = [chans EXCEPT ![importComplete] = Tail(@)]
        /\ UNCHANGED <<addImport, handled, made>>
        /\ IF ~ok
           THEN /\ ip' = importPackagesLoop(running)
                /\ UNCHANGED packages
           ELSE IF packages[cm.packageName].clientCompleteChannels = <<>>
           THEN /\ packages' = [packages EXCEPT ![cm.packageName] =
                      importPackagesTold([@ EXCEPT !.completeMessage = cm])]
                /\ ip' = importPackagesLoop(running)
           ELSE /\ packages' = [packages EXCEPT
                      ![cm.packageName].completeMessage = cm]
                /\ ip' = [pc |-> "notify",
                          todo |-> packages[cm.packageName].clientCompleteChannels,
                          msg |-> cm, running |-> running,
                          packageName |-> cm.packageName]

\* One send of "for _, client := range cp.clientCompleteChannels" or of the
\* immediate reply; the iteration ends after the last one.
importPackagesSend ==
    LET client == Head(ip.todo)
        last == Len(ip.todo) = 1
    IN  /\ CanSend(client)
        /\ chans' = [chans EXCEPT ![client] = Append(@, ip.msg)]
        /\ packages' =
             IF last /\ ip.pc = "notify"
             THEN [packages EXCEPT ![ip.packageName] = importPackagesTold(@)]
             ELSE packages
        /\ ip' = IF last THEN importPackagesLoop(ip.running)
                 ELSE [ip EXCEPT !.todo = Tail(@)]
        /\ UNCHANGED <<addImport, handled, made>>

\* The loop, one step at a time.
importPackages ==
    /\ ~panicked
    /\ ip.pc # "exited"
    /\ IF ip.pc = "select"
       THEN \E selected \in importPackagesReady :
              LET running == importPackagesRunning(selected) IN
              CASE selected = "addImport" ->
                     importPackagesAdd(Head(addImport), running)
                [] selected = "importComplete" ->
                     importPackagesComplete(Head(chans[importComplete]), running)
                [] selected = "shutdown" ->
                     /\ ip' = importPackagesLoop(running)
                     /\ UNCHANGED <<addImport, chans, packages, handled, made>>
       ELSE importPackagesSend
    /\ UNCHANGED <<passCompiler, tl, collab, importsOf, packageFiles, call, compileSrc, shutdown, panicked,
                   srcFiles, units, reported, cs>>

\* ------------------------------------------------------ package completion
\* The package locator: the names of the files that belong to the package.
LocatePackageFiles(p) == packageFiles[p]

\* A package in the table reports its result, once, on the channel it was
\* given to report on (importComplete): the first error of its member files,
\* or success; a package without member files reports success.
PackageReports(p) ==
    /\ ~panicked
    /\ packages[p] # NoPackage
    /\ reported[p] = "none"
    /\ Len(chans[importComplete]) < completionChannelDepth
    /\ \E err \in IF LocatePackageFiles(p) = {} THEN {nil}
                   ELSE {nil, PackageError(p)} :
         /\ chans' = [chans EXCEPT ![importComplete] =
                         Append(@, completionMessage(p, "", err))]
         /\ reported' = [reported EXCEPT ![p] = err]
    /\ UNCHANGED <<passCompiler, tl, collab, importsOf, packageFiles, call, compileSrc, addImport, shutdown,
                   panicked, srcFiles, units, packages, made, handled, cs, ip>>

\* ------------------------------------------------------------------ Next
Next ==
    \/ \E c \in Calls : Compile(c)
    \/ compileSrcs
    \/ importPackages
    \/ \E u \in 1 .. Len(units) : compileFileAndComplete(u)
    \/ \E p \in Packages : PackageReports(p)

Spec == Init /\ [][Next]_vars


\* ------------------------------------------------------------- properties
Range(seq) == {seq[i] : i \in DOMAIN seq}

Started(c) == call[c].pc # "idle"
Returned(c) == call[c].pc = "returned"

\* The distinct file names of the call's argument.
Requested(c) == call[c].sent \cup Range(call[c].srcFiles)

\* The file names of the messages the call has received.
ReceivedFiles(c) == {m.fileName : m \in Range(call[c].recv)}

\* Nothing can happen any more: every goroutine is blocked or has returned.
Stuck == ~ENABLED Next

\* The file's open, parse and symbol creation succeed and every package it
\* imports has reported success.
Succeeds(f) ==
    /\ compileFile(f) = nil
    /\ \A p \in importsOf[f] : reported[p] = nil

\* The error of the first error-bearing message of a sequence, or nil.
RECURSIVE FirstError(_)
FirstError(msgs) ==
    IF msgs = <<>> THEN nil
    ELSE IF Head(msgs).err # nil THEN Head(msgs).err
    ELSE FirstError(Tail(msgs))

\* C1: at most one File Unit is ever created per file name, and a request
\* naming a file that already has a table entry has its reply destination
\* attached to that entry's unit: when nothing more can happen and shutdown
\* was never broadcast, every request sent for a file in the table has its
\* completion channel in the file's unit.
C1_OneUnitPerFileName ==
    /\ \A f \in Files :
         Cardinality({u \in DOMAIN units : units[u].fileName = f}) <= 1
    /\ (Stuck /\ shutdown = "open") =>
         \A c \in Calls : \A f \in call[c].sent :
            srcFiles[f] # 0 =>
               units[srcFiles[f]].completeChannel = CallChannel(c)

\* C2: at most one Package Unit is ever created per package name, and an
\* entry of the packages table is never replaced.
C2_OnePackageUnitPerName ==
    \A p \in Packages :
       /\ made[p] <= 1
       /\ made[p] = 0 <=> packages[p] = NoPackage

\* The importer's reply destination is on the package's client list.
Subscribed(im) ==
    /\ packages[im.packageName] # NoPackage
    /\ im.completeChannel \in Range(packages[im.packageName].clientCompleteChannels)

\* A completion message for the package has been sent to the importer.
Answered(im) ==
    \/ \E m \in Range(chans[im.completeChannel]) : m.packageName = im.packageName
    \/ im.packageName \notin units[im.completeChannel[2]].waitingPackageComplete

\* C3: every importer of a package, the one whose request created the
\* package's unit included, receives a completion message for it: once
\* importPackages has handled an import request, the request's reply
\* destination is on the package's client list or has been sent the message.
C3_EveryImporterNotified ==
    \A im \in handled : Subscribed(im) \/ Answered(im)

\* C4: if every file requested in a Compile call succeeds, the call returns,
\* and it returns nil: no state in which nothing more can happen has such a
\* call that has not returned nil.
C4_SuccessReturnsNil ==
    Stuck =>
      \A c \in Calls :
         (Started(c) /\ Requested(c) # {} /\ \A f \in Requested(c) : Succeeds(f))
            => (Returned(c) /\ call[c].err = nil)

C7_ReturnsAfterAllReported ==
    \A c \in Calls :
       Returned(c) =>
          /\ call[c].srcFiles = <<>>
          /\ call[c].waitingOn = {}
          /\ Requested(c) \subseteq ReceivedFiles(c)

C7_Witness ==
    \E c \in Calls :
       Returned(c) /\ Requested(c) # {} /\ Requested(c) \subseteq ReceivedFiles(c)

\* C8: every Compile call with a non-empty file list returns (the import
\* graph of the model is acyclic: packages import nothing): no state in which
\* nothing more can happen has such a call that has not returned.
C8_CompileReturns ==
    Stuck =>
      \A c \in Calls : (Started(c) /\ Requested(c) # {}) => Returned(c)

\* The call asks for one file, which fails to open or parse; made alone on
\* a new orchestrator, it returns that file's error.
ReturnsAlone(c) ==
    \E f \in Files : Requested(c) = {f} /\ compileFile(f) # nil

\* C9: concurrent Compile calls for disjoint file sets do not interfere: each
\* receives messages only for its own files and returns the outcome of its
\* own files.  Stated for the calls that return when made alone: when nothing
\* more can happen, such a call has returned its file's error whatever the
\* other calls, for other files, did.
C9_DisjointCallsIndependent ==
    \A c \in Calls :
       (\A d \in Calls \ {c} : Requested(c) \cap Requested(d) = {}) =>
          /\ ReceivedFiles(c) \subseteq Requested(c)
          /\ (Stuck /\ ReturnsAlone(c)) =>
                /\ Returned(c)
                /\ \E f \in Requested(c) : call[c].err = compileFile(f)

\* C10: a Compile call made after another one with the same file set has
\* returned yields the same outcome: when nothing more can happen, the later
\* call has returned, with the error (or nil) the earlier one returned.
C10_CompileIdempotent ==
    Stuck =>
      \A c \in Calls : \A d \in call[c].after :
         Requested(c) = Requested(d) =>
            (Returned(c) /\ call[c].err = call[d].err)

\* The completion messages sent so far on a Compile call's channel, in order:
\* those the call has received, then those still queued.
Delivered(ch) == call[ch[2]].recv \o chans[ch]

\* The messages about file f among them, and those that carry an error.
NoticesOf(ch, f) == {i \in DOMAIN Delivered(ch) : Delivered(ch)[i].fileName = f}
ErrorsOf(ch, f) == {i \in NoticesOf(ch, f) : Delivered(ch)[i].err # nil}

\* C11: a file with no imports whose parse and symbol creation succeed
\* delivers a success completion message carrying its file name to its
\* requester: when nothing more can happen, every sourceFile of such a file
\* has sent one on its completeChannel.
C11_NoImportsReportsSuccess ==
    Stuck =>
      \A u \in DOMAIN units :
         (compileFile(units[u].fileName) = nil /\ importsOf[units[u].fileName] = {})
            => \E i \in NoticesOf(units[u].completeChannel, units[u].fileName) :
                  Delivered(units[u].completeChannel)[i].err = nil

\* The package has reported an error of one of its member files.
PackageFailed(p) == reported[p] \notin {"none", nil}

\* C12: once a member file of a package has reported an error, the package
\* never delivers success and every file importing it reports an error: the
\* cached message of such a package is no success, no success message for it
\* is on a file's packageComplete channel, and when nothing more can happen
\* every sourceFile that imports it has sent an error to its requester.
C12_PackageErrorPropagates ==
    \A p \in Packages :
       PackageFailed(p) =>
          /\ packages[p].status # compileStatusParsing
                => packages[p].completeMessage.err # nil
          /\ \A u \in DOMAIN units :
                \A m \in Range(chans[FileChannel(u)]) :
                   m.packageName = p => m.err # nil
          /\ Stuck =>
                \A u \in DOMAIN units :
                   (compileFile(units[u].fileName) = nil
                      /\ p \in importsOf[units[u].fileName])
                     => ErrorsOf(units[u].completeChannel, units[u].fileName) # {}

\* The file's open, parse and symbol creation succeed, and it imports
\* packages, all without member files.
ImportsOnlyEmptyPackages(f) ==
    /\ compileFile(f) = nil
    /\ importsOf[f] # {}
    /\ \A p \in importsOf[f] : LocatePackageFiles(p) = {}

\* C13: a package without member files completes with success, so a Compile
\* call whose files import only such packages returns nil: no state in which
\* nothing more can happen has such a call that has not returned nil.
C13_EmptyPackageSucceeds ==
    Stuck =>
      \A c \in Calls :
         (Started(c) /\ Requested(c) # {}
            /\ \A f \in Requested(c) : ImportsOnlyEmptyPackages(f))
           => (Returned(c) /\ call[c].err = nil)

\* C14: a requested file that fails to open is neither parsed nor made to
\* wait for imports, exactly one error-bearing completion message naming it
\* reaches the Compile call, and the call returns an error: the file's
\* sourceFile never holds another error than the open error and never waits
\* for imports, and when nothing more can happen every call that requested
\* the file has received exactly one error message for it and has returned
\* an error.
C14_OpenErrorReported ==
    /\ \A u \in DOMAIN units :
          compileFileOpen(units[u].fileName) # nil =>
             /\ units[u].err \in {nil, OpenError(units[u].fileName)}
             /\ units[u].pc \notin {"sendImports", "waitImports"}
    /\ Stuck =>
          \A c \in Calls : \A f \in Requested(c) :
             (Started(c) /\ compileFileOpen(f) # nil) =>
                /\ Cardinality({i \in DOMAIN call[c].recv :
                       call[c].recv[i].fileName = f /\ call[c].recv[i].err # nil}) = 1
                /\ Returned(c)
                /\ call[c].err # nil

\* The requests on compileSrc that carry the call's completion channel, and
\* the file names the range loop has passed.
RequestsOf(c) ==
    SelectSeq(compileSrc, LAMBDA m : m.completeChannel = CallChannel(c))
Passed(c) == {call[c].srcFiles[j] : j \in 1 .. (call[c].i - 1)}

\* C15: Compile sends exactly one request for each distinct file name of its
\* argument, however often the name is repeated, and every request of a call
\* carries the call's own completion channel: at every point of the range
\* loop the requests carrying the call's channel are one for each name passed
\* and none for any other, and at its end they are the distinct names of the
\* argument in the order of their first occurrence.
C15_OneRequestPerName ==
    \A c \in Calls :
       /\ \A f \in Files :
             Cardinality({j \in DOMAIN RequestsOf(c) : RequestsOf(c)[j].fileName = f})
                = IF f \in Passed(c) THEN 1 ELSE 0
       /\ call[c].pc = "receive" =>
             /\ Passed(c) = Range(call[c].srcFiles)
             /\ [j \in DOMAIN RequestsOf(c) |-> RequestsOf(c)[j].fileName]
                   = ToSend(call[c].srcFiles, {})

C15_Witness ==
    \E c \in Calls :
       /\ call[c].pc = "receive"
       /\ Len(call[c].srcFiles) > Cardinality(Range(call[c].srcFiles))
       /\ Len(RequestsOf(c)) = Cardinality(Range(call[c].srcFiles))

\* C16: neither loop exits before shutdown has been broadcast: compileSrcs
\* and importPackages have not returned while the shutdown channel is open.
C16_LoopsRunUntilShutdown ==
    (cs.pc = "exited" \/ ip.pc = "exited") => shutdown = "closed"

\* The sourceFile's subtask has failed: compileFile has returned an error.
Failed(u) == units[u].pc \in {"complete", "done"} /\ units[u].err # nil

C18_SameFileSameResult ==
    Stuck =>
      \A c \in Calls : \A d \in Calls \ {c} :
         \A f \in call[c].sent \cap call[d].sent :
            f \in ReceivedFiles(c) =>
               {m.err : m \in {n \in Range(call[d].recv) : n.fileName = f}}
                  = {m.err : m \in {n \in Range(call[c].recv) : n.fileName = f}}

\* A compile request for the file has been issued: it is on compileSrc or a
\* sourceFile has been made for it.
RequestIssued(f) ==
    \/ \E i \in DOMAIN compileSrc : compileSrc[i].fileName = f
    \/ \E u \in DOMAIN units : units[u].fileName = f

\* C19: when the first import request for a package has been handled, one
\* compile request has been issued for each of its member files and its
\* outstanding set is the set of its member file names: this holds of every
\* package in the table whose member files have not reported yet.
C19_MemberFilesRequested ==
    \A p \in Packages :
       (packages[p] # NoPackage /\ reported[p] = "none") =>
          /\ packages[p].waitingFileComplete = LocatePackageFiles(p)
          /\ \A f \in LocatePackageFiles(p) : RequestIssued(f)

\* The package's result has been fanned out: its client list has been
\* cleared.
FannedOut(p) == packages[p].clientCompleteChannels = <<>>

C28_SchedulerDrainsBeforeExit ==
    /\ [](cs.pc = "exited" => \A u \in DOMAIN units : units[u].pc = "done")
    /\ [][cs.pc = "exited" => Len(units') = Len(units)]_vars

\* C29: c.srcFiles is written only by compileSrcs and c.packages only by
\* importPackages: a step that changes srcFiles is a step of compileSrcs
\* (it takes a request and adds a sourceFile), a step that changes packages
\* is a step of importPackages, and neither is a step of a Compile call or
\* of a subtask.
C29_TablesOwnedByLoops ==
    [][/\ srcFiles' # srcFiles =>
             /\ cs' # cs
             /\ Len(units') = Len(units) + 1
             /\ call' = call
       /\ packages' # packages =>
             /\ ip' # ip
             /\ units' = units
             /\ call' = call]_vars

C29_Witness ==
    /\ \E f \in Files : srcFiles[f] # 0
    /\ \E p \in Packages : packages[p] # NoPackage
    /\ \E c \in Calls : \E d \in Calls \ {c} :
          call[c].sent \cap call[d].sent # {}

\* C31: Compile called with an empty file list returns nil without blocking:
\* no state in which nothing more can happen has a call with an empty list
\* that has not returned nil.
C31_EmptyListReturnsNil ==
    Stuck =>
      \A c \in Calls :
         (Started(c) /\ Requested(c) = {}) => (Returned(c) /\ call[c].err = nil)

\* C32: when a Compile call returns, its result is non-nil if and only if at
\* least one completion message it received carried an error.
C32_ErrorIffErrorReceived ==
    \A c \in Calls :
       Returned(c) =>
          (call[c].err # nil <=> \E m \in Range(call[c].recv) : m.err # nil)

C32_Witness ==
    \E c \in Calls :
       /\ Returned(c)
       /\ \E m \in Range(call[c].recv) : m.err # nil /\ call[c].err = m.err
       /\ ~panicked

\* C33: importComplete, the channel importPackages itself receives on, is
\* never on the client list of a compilePackage, so importPackages never
\* sends a completion message to itself.
C33_LoopNotItsOwnClient ==
    \A p \in Packages :
       packages[p] # NoPackage =>
          importComplete \notin Range(packages[p].clientCompleteChannels)

\* ================================================= the pass-based scheduler
\* The earlier revision of the Compiler runs every file through numbered
\* passes, one goroutine per pass, under one scheduler loop.

MaxPassFiles == 2
MaxThreads == 2

compilerPassStart == 0
compilerPassParse == 1
compilerPassResolve == 2
compilerPassSemantic == 3
compilerPassCodeGen == 4
compilerPassLink == 5

progressChannelDepth == 4

PassFileLists == UNION {[1 .. n -> Files] : n \in 0 .. MaxPassFiles}

\* The variables of the current Compiler play no part in this revision.
CurrentCompilerAbsent ==
    /\ importsOf = <<>> /\ packageFiles = <<>> /\ call = <<>> /\ chans = <<>>
    /\ compileSrc = <<>> /\ addImport = <<>> /\ shutdown = <<>>
    /\ panicked = <<>> /\ srcFiles = <<>> /\ units = <<>> /\ packages = <<>>
    /\ made = <<>> /\ handled = <<>> /\ reported = <<>> /\ cs = <<>>
    /\ ip = <<>>

\* NewCompiler: nothing ready, nothing compiling, maxThreads the number of
\* CPUs, currentThreads 0, shutdown false, empty channels, the scheduler loop
\* started.  files holds every SourceFile made (readyToCompile and compiling
\* refer to them by index); threads holds every pass goroutine started.
NewPassCompiler(numCPU) ==
    [pc |-> "idle", srcFiles |-> <<>>, i |-> 1, err |-> nil,
     readyToCompile |-> <<>>, compiling |-> [f \in Files |-> 0],
     files |-> <<>>, maxThreads |-> numCPU, currentThreads |-> 0,
     shutdown |-> FALSE, compileSrc |-> <<>>, progress |-> <<>>,
     loop |-> "main", threads |-> <<>>, panicked |-> FALSE]

InitPass ==
    /\ collab \in [Files -> {"ok", "openError", "parseError"}]
    /\ CurrentCompilerAbsent
    /\ \E numCPU \in 1 .. MaxThreads : passCompiler = NewPassCompiler(numCPU)
    /\ tl = <<>>

PassUnchanged ==
    UNCHANGED <<collab, importsOf, packageFiles, call, chans, compileSrc,
                addImport, shutdown, panicked, srcFiles, units, packages,
                made, handled, reported, cs, ip, tl>>

\* SetMaxThreads, used before compilation.
SetMaxThreads ==
    /\ passCompiler.pc = "idle"
    /\ \E maxThreads \in 1 .. MaxThreads :
         /\ maxThreads # passCompiler.maxThreads
         /\ passCompiler' = [passCompiler EXCEPT !.maxThreads = maxThreads]
    /\ PassUnchanged

\* Compile is called with a list of file names.
passCompileBegin ==
    /\ passCompiler.pc = "idle"
    /\ \E fl \in PassFileLists :
         passCompiler' = [passCompiler EXCEPT
            !.srcFiles = fl,
            !.pc = IF fl = <<>> THEN "select" ELSE "send"]
    /\ PassUnchanged

\* Compile's range loop: one send on compileSrc per element of the list.
passCompileSend ==
    /\ passCompiler.pc = "send"
    /\ Len(passCompiler.compileSrc) < compileSrcChannelDepth
    /\ passCompiler' = [passCompiler EXCEPT
          !.compileSrc = Append(@, passCompiler.srcFiles[passCompiler.i]),
          !.i = @ + 1,
          !.pc = IF passCompiler.i = Len(passCompiler.srcFiles)
                 THEN "select" ELSE @]
    /\ PassUnchanged

\* Compile's select takes an error from errorStream.  errorStream is
\* unbuffered: the send of pass goroutine t and this receive happen together;
\* the goroutine goes on to its deferred send on progress.
passCompileError(t) ==
    /\ passCompiler.pc = "select"
    /\ passCompiler.threads[t].pc = "error"
    /\ passCompiler' = [passCompiler EXCEPT
          !.err = passCompiler.threads[t].err,
          !.pc = "shutdown",
          !.threads[t].pc = "progress"]
    /\ PassUnchanged

\* After an error: Compile sets shutdown, then waits on finished.
passCompileShutdown ==
    /\ passCompiler.pc = "shutdown"
    /\ passCompiler' = [passCompiler EXCEPT !.shutdown = TRUE,
                                            !.pc = "waitFinished"]
    /\ PassUnchanged

\* Compile receives from finished, in the select or after an error, and
\* returns err.  finished is unbuffered: the loop's send happens together
\* with this receive.
passCompileFinished ==
    /\ passCompiler.pc \in {"select", "waitFinished"}
    /\ passCompiler.loop = "finish"
    /\ passCompiler' = [passCompiler EXCEPT !.pc = "returned", !.loop = "done"]
    /\ PassUnchanged

\* schedulePass's switch on sf.pass: the pass the file moves to.  There is
\* no case for compilerPassCodeGen.
schedulePassNext(pass) ==
    CASE pass = compilerPassStart -> compilerPassParse
      [] pass = compilerPassParse -> compilerPassResolve
      [] pass = compilerPassResolve -> compilerPassSemantic
      [] pass = compilerPassSemantic -> compilerPassCodeGen
      [] pass = compilerPassLink -> compilerPassLink
      [] OTHER -> pass

\* schedulePass's switch on sf.pass: whether a goroutine is started.
schedulePassStarts(pass) ==
    pass \in {compilerPassStart, compilerPassParse, compilerPassResolve,
              compilerPassSemantic, compilerPassLink}

\* schedulePass's loop: while currentThreads < maxThreads and something is
\* ready, take the first file off readyToCompile, put it in compiling and
\* start its next pass.  currentThreads is not assigned anywhere.
RECURSIVE schedulePassLoop(_)
schedulePassLoop(c) ==
    IF c.currentThreads < c.maxThreads /\ Len(c.readyToCompile) > 0
    THEN LET sf == c.readyToCompile[1]
             fileName == c.files[sf].fileName
             pass == c.files[sf].pass
         IN  schedulePassLoop([c EXCEPT
                !.readyToCompile = Tail(@),
                !.compiling[fileName] = sf,
                !.files[sf].pass = schedulePassNext(pass),
                !.threads = IF schedulePassStarts(pass)
                            THEN Append(@, [sf |-> sf, fileName |-> fileName,
                                            pass |-> schedulePassNext(pass),
                                            pc |-> "run", err |-> nil])
                            ELSE @])
    ELSE c

\* schedulePass: the loop, then done when nothing is ready or compiling.
schedulePass(c) ==
    LET after == schedulePassLoop(c)
        done == /\ Len(after.readyToCompile) = 0
                /\ \A f \in Files : after.compiling[f] = 0
    IN  [after EXCEPT !.loop = IF done THEN "drain" ELSE @]

\* getFromCompiling: the file's entry in compiling, 0 standing for nil.  The
\* entry is removed from the map where the callers build the next state.
getFromCompiling(c, fileName) == c.compiling[fileName]

\* What the loop reads from shutdown.  Compile writes it and the loop reads it
\* with no synchronisation between them: after the write the read may yield
\* either value.
shutdownReads(c) == IF c.shutdown THEN {TRUE, FALSE} ELSE {FALSE}

\* The rest of one iteration of the main loop, after the select: leave the
\* loop on shutdown, otherwise schedule.
compileSrcsSchedule(c, sd) ==
    IF sd THEN [c EXCEPT !.loop = "drain"] ELSE schedulePass(c)

\* One iteration of compileSrcs' main loop.  The select takes a new file
\* name, which becomes a SourceFile at compilerPassStart on readyToCompile, or
\* a progress notice, whose file is taken out of compiling and queued again
\* unless its pass is compilerPassLink (a notice for a file that is not in
\* compiling dereferences nil).
passCompileSrcs ==
    /\ passCompiler.loop = "main"
    /\ ~passCompiler.panicked
    /\ \E sd \in shutdownReads(passCompiler) :
         \/ /\ passCompiler.compileSrc # <<>>
            /\ LET newFileName == Head(passCompiler.compileSrc)
                   n == Len(passCompiler.files) + 1
               IN  passCompiler' = compileSrcsSchedule(
                      [passCompiler EXCEPT
                         !.compileSrc = Tail(@),
                         !.files = Append(@, [fileName |-> newFileName,
                                              pass |-> compilerPassStart]),
                         !.readyToCompile = Append(@, n)], sd)
         \/ /\ passCompiler.progress # <<>>
            /\ LET progFileName == Head(passCompiler.progress)
                   srcFile == getFromCompiling(passCompiler, progFileName)
               IN  IF srcFile = 0
                   THEN passCompiler' = [passCompiler EXCEPT
                           !.progress = Tail(@), !.panicked = TRUE]
                   ELSE passCompiler' = compileSrcsSchedule(
                           [passCompiler EXCEPT
                              !.progress = Tail(@),
                              !.compiling[progFileName] = 0,
                              !.readyToCompile =
                                 IF passCompiler.files[srcFile].pass
                                       # compilerPassLink
                                 THEN Append(@, srcFile) ELSE @], sd)
    /\ PassUnchanged

\* One iteration of the loop that waits for the goroutines after the main
\* loop: leave when compiling is empty; otherwise take and drop a new file
\* name, or take a progress notice and remove its file from compiling.
passCompileSrcsDrain ==
    /\ passCompiler.loop = "drain"
    /\ ~passCompiler.panicked
    /\ IF \A f \in Files : passCompiler.compiling[f] = 0
       THEN passCompiler' = [passCompiler EXCEPT !.loop = "finish"]
       ELSE \/ /\ passCompiler.compileSrc # <<>>
               /\ passCompiler' = [passCompiler EXCEPT !.compileSrc = Tail(@)]
            \/ /\ passCompiler.progress # <<>>
               /\ passCompiler' = [passCompiler EXCEPT
                     !.progress = Tail(@),
                     !.compiling[Head(passCompiler.progress)] = 0]
    /\ PassUnchanged

\* The body of a pass goroutine, up to its deferred send on progress.
\* parseFile opens and parses the file and has an error to send on
\* errorStream when either fails; the other passes do nothing.
passRun(t) ==
    /\ passCompiler.threads[t].pc = "run"
    /\ ~passCompiler.panicked
    /\ LET fileName == passCompiler.threads[t].fileName
           failed == /\ passCompiler.threads[t].pass = compilerPassParse
                     /\ collab[fileName] # "ok"
           err == IF collab[fileName] = "openError"
                  THEN OpenError(fileName) ELSE ParseError(fileName)
       IN  passCompiler' = [passCompiler EXCEPT
              !.threads[t].pc = IF failed THEN "error" ELSE "progress",
              !.threads[t].err = IF failed THEN err ELSE nil]
    /\ PassUnchanged

\* The deferred send of a pass goroutine: its file name on progress.
passProgress(t) ==
    /\ passCompiler.threads[t].pc = "progress"
    /\ ~passCompiler.panicked
    /\ Len(passCompiler.progress) < progressChannelDepth
    /\ passCompiler' = [passCompiler EXCEPT
          !.progress = Append(@, passCompiler.threads[t].fileName),
          !.threads[t].pc = "done"]
    /\ PassUnchanged

NextPass ==
    \/ SetMaxThreads
    \/ passCompileBegin
    \/ passCompileSend
    \/ \E t \in DOMAIN passCompiler.threads : passCompileError(t)
    \/ passCompileShutdown
    \/ passCompileFinished
    \/ passCompileSrcs
    \/ passCompileSrcsDrain
    \/ \E t \in DOMAIN passCompiler.threads : passRun(t)
    \/ \E t \in DOMAIN passCompiler.threads : passProgress(t)

SpecPass == InitPass /\ [][NextPass]_vars

PassStuck == ~ENABLED NextPass

\* The passes started for SourceFile sf, in the order they were started.
RECURSIVE PassesOf(_, _)
PassesOf(threads, sf) ==
    IF threads = <<>> THEN <<>>
    ELSE IF Head(threads).sf = sf
         THEN <<Head(threads).pass>> \o PassesOf(Tail(threads), sf)
         ELSE PassesOf(Tail(threads), sf)

\* The pass goroutines at work in their pass.
RunningPasses ==
    {t \in DOMAIN passCompiler.threads : passCompiler.threads[t].pc = "run"}

\* The names in Compile's list whose open or parse fails.
FailingFiles ==
    {f \in Range(passCompiler.srcFiles) : collab[f] # "ok"}

PassStarted == passCompiler.pc # "idle"
PassReturned == passCompiler.pc = "returned"

\* C34: in the pass-based scheduler every file sent to compileSrc is run
\* through Parse, Resolve, Semantic, CodeGen and Link in that order, one pass
\* at a time, and once every file has finished its last pass the scheduler
\* signals finished and Compile returns nil.  Stated of the runs that have come
\* to rest, for a non-empty list of files that all open and parse.
C34_EveryFileThroughAllPasses ==
    (PassStuck /\ PassStarted /\ passCompiler.srcFiles # <<>>
       /\ FailingFiles = {})
    => /\ PassReturned
       /\ passCompiler.err = nil
       /\ \A sf \in DOMAIN passCompiler.files :
             PassesOf(passCompiler.threads, sf)
                = <<compilerPassParse, compilerPassResolve,
                    compilerPassSemantic, compilerPassCodeGen,
                    compilerPassLink>>

\* C35: in the pass-based scheduler the number of pass goroutines running at
\* the same time never exceeds maxThreads.
C35_AtMostMaxThreadsRunning ==
    Cardinality(RunningPasses) <= passCompiler.maxThreads

\* C36: in the pass-based scheduler, when two or more files fail to open or
\* parse, Compile still returns, with one of those errors, and every failing
\* parseFile goroutine has got past its send on errorStream and reported on
\* progress.  Stated of the runs that have come to rest.
C36_ConcurrentFailuresStillReturn ==
    (PassStuck /\ PassStarted /\ Cardinality(FailingFiles) >= 2)
    => /\ PassReturned
       /\ passCompiler.err \in {OpenError(f) : f \in FailingFiles}
                               \cup {ParseError(f) : f \in FailingFiles}
       /\ \A t \in DOMAIN passCompiler.threads :
             passCompiler.threads[t].pass = compilerPassParse
             => passCompiler.threads[t].pc = "done"

\* ============================================================ the TokenList
\* 64-bit integers are sets of bit positions: bit b of the value is set exactly
\* when b is in the set; a signed value is negative exactly when it holds bit
\* 63 (two's complement).

Bits == 0 .. 63

\* The bits of a natural number below 2^31, and the number of a set of bits
\* below bit 31.
FromNat(n) == {b \in 0 .. 30 : (n \div (2 ^ b)) % 2 = 1}

RECURSIVE ToNat(_)
ToNat(s) ==
    IF s = {} THEN 0
    ELSE LET b == CHOOSE x \in s : TRUE IN (2 ^ b) + ToNat(s \ {b})

\* int64(n) for a small integer n, and int(v) for a small 64-bit value v.
FromInt(n) == IF n >= 0 THEN FromNat(n) ELSE Bits \ FromNat((-n) - 1)
ToInt(s) == IF 63 \in s THEN (-ToNat(Bits \ s)) - 1 ELSE ToNat(s)

\* a ^ b, a << 1, a >> 1 (logical) on 64 bits.
Xor(a, b) == (a \ b) \cup (b \ a)
Shl1(a) == {b + 1 : b \in a \ {63}}
Shr1(a) == {b - 1 : b \in a \ {0}}

\* val < 2^w for an unsigned 64-bit val.
FitsIn(val, w) == val \subseteq 0 .. (w - 1)

\* binary.Write / binary.Read of an n-byte little endian value: bytes are
\* numbers 0 .. 255, lowest byte first.
LittleEndian(val, n) ==
    [k \in 1 .. n |-> ToNat({b - 8 * (k - 1) : b \in val \cap (8 * (k - 1) .. 8 * k - 1)})]
FromLittleEndian(bytes) ==
    UNION {{b + 8 * (k - 1) : b \in FromNat(bytes[k])} : k \in DOMAIN bytes}

TokenFlagInt16 == 253
TokenFlagInt32 == 254
TokenFlagInt64 == 255

\* Variant of EncodeUint64 (a seeded fault): the first size class takes in the
\* flag value itself (<= in place of <).
EncodeUint64FlagAsByte(val) ==
    IF FitsIn(val, 8) /\ ToNat(val) <= TokenFlagInt16
    THEN LittleEndian(val, 1)
    ELSE IF FitsIn(val, 16)
    THEN <<TokenFlagInt16>> \o LittleEndian(val, 2)
    ELSE IF FitsIn(val, 32)
    THEN <<TokenFlagInt32>> \o LittleEndian(val, 4)
    ELSE <<TokenFlagInt64>> \o LittleEndian(val, 8)

\* EncodeUint64: the bytes written for val.  Below 0xfd one byte; below
\* 0x10000 the flag 0xfd and 16 bits; below 0x100000000 the flag 0xfe and 32
\* bits; otherwise the flag 0xff and 64 bits.
EncodeUint64(val) ==
    IF FitsIn(val, 8) /\ ToNat(val) < TokenFlagInt16
    THEN LittleEndian(val, 1)
    ELSE IF FitsIn(val, 16)
    THEN <<TokenFlagInt16>> \o LittleEndian(val, 2)
    ELSE IF FitsIn(val, 32)
    THEN <<TokenFlagInt32>> \o LittleEndian(val, 4)
    ELSE <<TokenFlagInt64>> \o LittleEndian(val, 8)

\* binary.Read of n bytes from the reader at offset rd of bytes: the value
\* and the new offset; ok is false, with the reader at the end, when fewer
\* than n bytes are left.
BinaryRead(bytes, rd, n) ==
    IF rd + n > Len(bytes)
    THEN [ok |-> FALSE, val |-> {}, rd |-> Len(bytes)]
    ELSE [ok |-> TRUE, val |-> FromLittleEndian(SubSeq(bytes, rd + 1, rd + n)),
          rd |-> rd + n]

\* DecodeUint64: the value read at offset rd and the new offset.  A failed
\* read yields 0.
DecodeUint64(bytes, rd) ==
    LET b == BinaryRead(bytes, rd, 1)
    IN  IF ~b.ok THEN [val |-> {}, rd |-> b.rd]
        ELSE IF ToNat(b.val) < TokenFlagInt16 THEN [val |-> b.val, rd |-> b.rd]
        ELSE LET n == CASE ToNat(b.val) = TokenFlagInt16 -> 2
                        [] ToNat(b.val) = TokenFlagInt32 -> 4
                        [] ToNat(b.val) = TokenFlagInt64 -> 8
                 r == BinaryRead(bytes, b.rd, n)
             IN  [val |-> r.val, rd |-> r.rd]

\* EncodeInt64: a negative val is written as ((val ^ 0x7fffffffffffffff) << 1) | 1,
\* any other as val << 1.
EncodeInt64(val) ==
    IF 63 \in val
    THEN EncodeUint64(Shl1(Xor(val, 0 .. 62)) \cup {0})
    ELSE EncodeUint64(Shl1(val))

\* DecodeInt64: lowest bit set means negative, (val >> 1) ^ 0xffffffffffffffff;
\* otherwise val >> 1.
DecodeInt64(bytes, rd) ==
    LET u == DecodeUint64(bytes, rd)
    IN  IF 0 \in u.val
        THEN [val |-> Xor(Shr1(u.val), Bits), rd |-> u.rd]
        ELSE [val |-> Shr1(u.val), rd |-> u.rd]

\* ------------------------------------------------- the integers round trip
\* Values are written with EncodeInt64 one after the other and then read back
\* with DecodeInt64.

MaxInts == 2

\* The sample of 64-bit values: the small ones, those either side of each size
\* class of the unsigned encoding, the largest, and the complement of each
\* (the smallest value among them).
Edges == {15, 16, 31, 32, 62, 63}
Int64Positive ==
    {FromNat(n) : n \in {0, 1, 2, 126, 127}}
       \cup {{k} : k \in Edges \ {63}}
       \cup {0 .. (k - 1) : k \in Edges}
Int64Samples ==
    Int64Positive \cup {Bits \ v : v \in Int64Positive}

\* The other variables play no part here.
AllCompilersAbsent ==
    /\ collab = <<>> /\ CurrentCompilerAbsent /\ passCompiler = <<>>

InitVarint ==
    /\ AllCompilersAbsent
    /\ tl = [tokens |-> <<>>, reading |-> FALSE, rd |-> 0,
             vals |-> <<>>, out |-> <<>>]

VarintUnchanged ==
    UNCHANGED <<collab, importsOf, packageFiles, call, chans, compileSrc,
                addImport, shutdown, panicked, srcFiles, units, packages,
                made, handled, reported, cs, ip, passCompiler>>

\* EncodeInt64(val) appends the bytes of val to the buffer.
VarintEncode ==
    /\ ~tl.reading
    /\ Len(tl.vals) < MaxInts
    /\ \E val \in Int64Samples :
         tl' = [tl EXCEPT !.tokens = @ \o EncodeInt64(val),
                          !.vals = Append(@, val)]
    /\ VarintUnchanged

\* A reader is put at the start of the buffer.
VarintStartReading ==
    /\ ~tl.reading
    /\ tl.vals # <<>>
    /\ tl' = [tl EXCEPT !.reading = TRUE, !.rd = 0]
    /\ VarintUnchanged

\* DecodeInt64 reads the next value.
VarintDecode ==
    /\ tl.reading
    /\ Len(tl.out) < Len(tl.vals)
    /\ LET r == DecodeInt64(tl.tokens, tl.rd)
       IN  tl' = [tl EXCEPT !.rd = r.rd, !.out = Append(@, r.val)]
    /\ VarintUnchanged

NextVarint == VarintEncode \/ VarintStartReading \/ VarintDecode

SpecVarint == InitVarint /\ [][NextVarint]_vars

\* C38: DecodeInt64 applied to the bytes written by EncodeInt64(v) returns v,
\* for negative values, zero, the smallest value and values whose left shift
\* overflows, either side of each size class of the unsigned encoding: every
\* value read back is the value written at that place.
C38_Int64RoundTrip ==
    \A k \in DOMAIN tl.out : tl.out[k] = tl.vals[k]

\* Every value has been read back, among them the smallest value, one one
\* byte long and a negative one just over the first size class.
C38_Witness ==
    /\ tl.out = tl.vals
    /\ Len(tl.out) = MaxInts
    /\ tl.out[1] = {63}
    /\ tl.out[2] = FromInt(-127)
    /\ tl.rd = Len(tl.tokens)

\* -------------------------------------------------- the tokens round trip
\* Tokens are added to a TokenList with their positions and read back after
\* StartReading.  Strings and floats (AddString, AddFloat) are left out: the
\* list holds operators, keywords and unsigned literals.

MaxTokens == 2
MaxLine == 2
MaxColumn == 2

TokenAdd == 0
TokenPackage == 64
TokenString == 72
TokenRune == 73
TokenInt == 74
TokenUint == 75
TokenFloat32 == 76
TokenFloat64 == 77
TokenIdentifier == 78
TokenEndOfSource == 79

SrcLoc(line, column) == [Line |-> line, Column |-> column]

\* The tokens and literal values handed to Add and AddUInt.
SimpleTokens == {TokenAdd, TokenPackage}
UintSamples == {FromNat(42), FromNat(300)}

\* The positions a token may be added at after one at last: on the same line
\* further right, or on a later line at any column from 0 on.  The first token
\* may be anywhere.
NextLocs(last, first) ==
    {pos \in {SrcLoc(l, c) : l \in 1 .. MaxLine, c \in 0 .. MaxColumn} :
        \/ first
        \/ pos.Line = last.Line /\ pos.Column > last.Column
        \/ pos.Line > last.Line}

\* NewTokenList: last is line 1, column 1; no bytes, no reader.  added and got
\* are history: what was added and what GetToken returned.
NewTokenList ==
    [last |-> SrcLoc(1, 1), tokens |-> <<>>, reading |-> FALSE, rd |-> 0,
     uintVal |-> {}, added |-> <<>>, got |-> <<>>]

InitTokenList ==
    /\ AllCompilersAbsent
    /\ tl = NewTokenList

\* EncodeLoc: the bytes written for pos after last, and the new last.  On the
\* same line the column delta; otherwise minus the column, then the line delta.
EncodeLoc(last, pos) ==
    IF last.Line = pos.Line
    THEN [bytes |-> EncodeInt64(FromInt(pos.Column - last.Column)),
          last |-> [last EXCEPT !.Column = pos.Column]]
    ELSE [bytes |-> EncodeInt64(FromInt(-pos.Column))
                       \o EncodeUint64(FromInt(pos.Line - last.Line)),
          last |-> pos]

\* DecodeLoc: the position read at offset rd after last, and the new offset.
\* A first value >= 0 is a column delta; a negative one is minus the column
\* and is followed by the line delta.
DecodeLoc(bytes, rd, last) ==
    LET v1 == DecodeInt64(bytes, rd)
    IN  IF 63 \notin v1.val
        THEN [last |-> [last EXCEPT !.Column = @ + ToInt(v1.val)], rd |-> v1.rd]
        ELSE LET lineInc == DecodeUint64(bytes, v1.rd)
             IN  [last |-> SrcLoc(last.Line + ToInt(lineInc.val), -ToInt(v1.val)),
                  rd |-> lineInc.rd]

\* Add: the position, then the token byte.
Add ==
    /\ ~tl.reading
    /\ Len(tl.added) < MaxTokens
    /\ \E pos \in NextLocs(tl.last, tl.added = <<>>), token \in SimpleTokens :
         LET loc == EncodeLoc(tl.last, pos)
         IN  tl' = [tl EXCEPT
                !.tokens = @ \o loc.bytes \o <<token>>,
                !.last = loc.last,
                !.added = Append(@, [token |-> token, loc |-> pos, val |-> {}])]
    /\ VarintUnchanged

\* AddUInt: the position, the token byte, then the value.
AddUInt ==
    /\ ~tl.reading
    /\ Len(tl.added) < MaxTokens
    /\ \E pos \in NextLocs(tl.last, tl.added = <<>>), val \in UintSamples :
         LET loc == EncodeLoc(tl.last, pos)
         IN  tl' = [tl EXCEPT
                !.tokens = @ \o loc.bytes \o <<TokenUint>> \o EncodeUint64(val),
                !.last = loc.last,
                !.added = Append(@, [token |-> TokenUint, loc |-> pos,
                                     val |-> val])]
    /\ VarintUnchanged

\* StartReading: a reader at the start of the bytes, last back at line 1,
\* column 1.
StartReading ==
    /\ ~tl.reading
    /\ tl' = [tl EXCEPT !.reading = TRUE, !.rd = 0, !.last = SrcLoc(1, 1)]
    /\ VarintUnchanged

\* What GetToken does after the position: read the token byte (none left:
\* TokenEndOfSource); operators and keywords have no value; the others read
\* theirs.  No symbol is held, so a symbol index is never below len(symbols).
GetTokenAfterLoc(bytes, rd, uintVal) ==
    LET b == BinaryRead(bytes, rd, 1)
        token == ToNat(b.val)
        u == DecodeUint64(bytes, b.rd)
        i == DecodeInt64(bytes, b.rd)
        f32 == BinaryRead(bytes, b.rd, 4)
        f64 == BinaryRead(bytes, b.rd, 8)
    IN  IF ~b.ok
        THEN [token |-> TokenEndOfSource, rd |-> b.rd, uintVal |-> uintVal]
        ELSE IF token < TokenString
        THEN [token |-> token, rd |-> b.rd, uintVal |-> uintVal]
        ELSE CASE token \in {TokenString, TokenIdentifier} ->
                    [token |-> TokenEndOfSource, rd |-> u.rd, uintVal |-> uintVal]
               [] token \in {TokenRune, TokenUint} ->
                    [token |-> token, rd |-> u.rd, uintVal |-> u.val]
               [] token = TokenInt ->
                    [token |-> token, rd |-> i.rd, uintVal |-> uintVal]
               [] token = TokenFloat32 ->
                    [token |-> IF f32.ok THEN token ELSE TokenEndOfSource,
                     rd |-> f32.rd, uintVal |-> uintVal]
               [] token = TokenFloat64 ->
                    [token |-> IF f64.ok THEN token ELSE TokenEndOfSource,
                     rd |-> f64.rd, uintVal |-> uintVal]
               [] OTHER ->
                    [token |-> token, rd |-> b.rd, uintVal |-> uintVal]

\* GetToken: the position, then the token and its value.  Reading stops at
\* the first TokenEndOfSource.
GetToken ==
    /\ tl.reading
    /\ IF tl.got = <<>> THEN TRUE
       ELSE tl.got[Len(tl.got)].token # TokenEndOfSource
    /\ LET loc == DecodeLoc(tl.tokens, tl.rd, tl.last)
           t == GetTokenAfterLoc(tl.tokens, loc.rd, tl.uintVal)
       IN  tl' = [tl EXCEPT
              !.last = loc.last,
              !.rd = t.rd,
              !.uintVal = t.uintVal,
              !.got = Append(@, [token |-> t.token, loc |-> loc.last,
                                 val |-> IF t.token = TokenUint
                                         THEN t.uintVal ELSE {}])]
    /\ VarintUnchanged

NextTokenList == Add \/ AddUInt \/ StartReading \/ GetToken

SpecTokenList == InitTokenList /\ [][NextTokenList]_vars

\* C37: for tokens added at positions whose lines do not decrease and whose
\* columns are >= 0 (column 0 included, also on the first token of a new
\* line), reading the list back after StartReading yields the same tokens in
\* the same order, each with the line and column it was added with, followed
\* by TokenEndOfSource.
C37_PositionsRoundTrip ==
    \A k \in DOMAIN tl.got :
       IF k <= Len(tl.added)
       THEN tl.got[k] = tl.added[k]
       ELSE k = Len(tl.added) + 1 /\ tl.got[k].token = TokenEndOfSource

====
